---- MODULE Spec2Model ----
(***************************************************************************)
(* A model of the autonomous decision-and-learning core of ZeraCorp V1.0:  *)
(*   AIActionDecider      (src/src/core/ai_agent.py)                       *)
(*   CostManager          (src/src/services/cost_management.py)            *)
(*   MonitoringService    (src/src/services/monitoring_service.py)         *)
(*   DataIngestionHandler (src/src/main.py)                                *)
(* Confidence values are fixed-point numbers in thousandths (1.0 = 1000),  *)
(* action names are sequences of string tokens so that the removal of the  *)
(* "ACTION: " prefix is modelled, and a dictionary with optional keys is a *)
(* record whose DOMAIN holds the keys that are present.                    *)
(***************************************************************************)
EXTENDS Integers, Sequences, FiniteSets, TLC

VARIABLES
    \* configuration and shared state
    rules,              \* AIActionDecider.rules: the loaded catalog
    tool_defs,          \* knowledge_base["tool_definitions"]
    cost_limit_kes,     \* CostManager.cost_limit_kes
    heuristics,         \* HeuristicEngine.heuristics: key -> stats
    safety_lock,        \* ConfigurationManager safety lock flag
    ai_agent_status,    \* the global status dictionary
    status_lock,        \* ai_agent_status_lock: "free" or its holder
    clock,              \* number of time.time() readings published so far
    \* one decide_action call
    d_pc,               \* position of the call
    d_i,                \* index of the rule the for loop is at
    d_call,             \* number of calls started
    sensor_data,        \* the sensor_data argument
    highest_score, best_action, selected_reason,   \* locals of decide_action
    d_result,           \* the returned dictionary
    d_evals,            \* history: what each rule evaluation of this call did
    d_chosen,           \* history: action and reason when the for loop ended
    d_first,            \* history: d_evals and d_result of the previous call
    \* one is_within_budget call
    b_pc, b_cost, b_result,
    \* the autonomy loop
    running,            \* AIActionDecider.running
    l_pc,               \* position of run_agent_loop
    l_iter,             \* iterations completed
    l_caught,           \* history: the iteration whose exception was caught last
    policy,             \* the file src/config/critical_policies.json
    heur_disk,          \* the persisted copy of the confidence store
    l_slept,            \* seconds of the current time.sleep(5) that have passed
    l_obs,              \* history: what the current iteration has done so far
    \* learn_from_feedback calls
    heur_lock,          \* the mutation lock of the confidence store
    f_pc, f_success, f_stats, f_base,
    \* one _perform_self_optimization pass next to the feedback calls
    m_pc,               \* position of the pass
    m_iter,             \* the items() iterator: the keys it has yet to yield
    m_size,             \* the size of the dictionary when the iterator was made
    m_key,              \* key of the for loops
    m_old_conf,         \* old_conf
    m_prune,            \* keys_to_prune
    m_obs,              \* history: what the pass met
    \* get_full_agent_status calls
    s_status,           \* the dictionary the last call returned
    s_reads,            \* number of calls made
    \* CostManager.log_action_cost and DBConnector.execute_commit
    c_pc,               \* position of the call
    c_conn,             \* conn of execute_commit: "unbound" or "open"
    c_success,          \* what execute_commit returned
    c_log,              \* level of the last message log_action_cost logged
    c_ledger,           \* rows committed to cost_log
    c_calls,            \* number of calls made
    \* MonitoringService.get_current_cpu
    g_psutil,           \* whether the psutil module was imported
    g_pc,               \* position of the call
    g_cpu,              \* the value returned
    g_calls,            \* number of calls made
    g_fallback,         \* the call went on to line 36
    \* process_data, one sensor submission
    p_pc,               \* position in process_data / handle_data_ingestion
    p_data,             \* the submitted sensor record
    p_decides,          \* decide_action calls made for the submission
    p_action,           \* ai_action, as the handler holds it
    p_first,            \* the action the first decide_action call returned
    p_exec,             \* the actions handed to execute_action, in order
    p_fb                \* the feedback events recorded, in order

cfgVars    == <<rules, tool_defs, cost_limit_kes>>
sharedVars == <<heuristics, safety_lock, ai_agent_status, status_lock, clock>>
decideVars == <<d_pc, d_i, d_call, sensor_data, highest_score, best_action,
                selected_reason, d_result, d_evals, d_chosen, d_first>>
budgetVars == <<b_pc, b_cost, b_result>>
loopVars   == <<running, l_pc, l_iter, l_caught, policy, heur_disk, l_slept,
                l_obs>>
fbVars     == <<heur_lock, f_pc, f_success, f_stats, f_base>>
maintVars  == <<m_pc, m_iter, m_size, m_key, m_old_conf, m_prune, m_obs>>
readVars   == <<s_status, s_reads>>
svcVars    == <<c_pc, c_conn, c_success, c_log, c_ledger, c_calls,
                g_psutil, g_pc, g_cpu, g_calls, g_fallback>>
subVars    == <<p_pc, p_data, p_decides, p_action, p_first, p_exec, p_fb>>
vars == <<cfgVars, sharedVars, decideVars, budgetVars, loopVars, fbVars,
          maintVars, readVars, svcVars, subVars>>

(***************************************************************************)
(* Bounds of the model.                                                    *)
(***************************************************************************)
MaxRules == 2       \* longest catalog
MaxCalls == 2       \* decide_action calls in one behaviour
MaxCost  == 9       \* largest proposed cost handed to is_within_budget
MaxIter  == 3       \* iterations of the autonomy loop
NumFeedback == 3    \* concurrent learn_from_feedback calls
MaxReads == 2       \* get_full_agent_status calls in one behaviour

(***************************************************************************)
(* Fixed-point confidence.                                                 *)
(***************************************************************************)
ConfScale == 10 * 100
DefaultConfidence == ConfScale              \* 1.0

\* f"{confidence:.2f}": the confidence rounded to hundredths
Format2f(c) == (c + 5) \div 10

(***************************************************************************)
(* Action names.                                                           *)
(***************************************************************************)
ActionPrefix == "ACTION: "
NullAction == <<>>
\* best_action = "ACTION: MONITOR_QUIETLY"
DefaultAction_None == NullAction
DefaultAction == <<ActionPrefix, "MONITOR_QUIETLY">>

DefaultReason == [text |-> "Default state.", conf |-> -1]
BudgetReason  == [text |-> "Budget Constraint Override.", conf |-> -1]
\* f"{rule['log']} (Conf: {confidence:.2f})"
RuleReason(log, confidence) == [text |-> log, conf |-> Format2f(confidence)]

\* action_name.replace("ACTION: ", "")
CleanName(action_name) == SelectSeq(action_name, LAMBDA t : t # ActionPrefix)

GetToolCost_NoStrip(defs, action_name) ==
    IF action_name \in DOMAIN defs /\ "cost" \in DOMAIN defs[action_name]
    THEN defs[action_name].cost
    ELSE 0
\* AIActionDecider._get_tool_cost
GetToolCost(defs, action_name) ==
    LET clean_name == CleanName(action_name) IN
    IF clean_name \in DOMAIN defs /\ "cost" \in DOMAIN defs[clean_name]
    THEN defs[clean_name].cost
    ELSE 0

(***************************************************************************)
(* CostManager.is_within_budget                                            *)
(***************************************************************************)
IsWithinBudget_Strict(limit, proposed_cost) == proposed_cost < limit
IsWithinBudget_Always(limit, proposed_cost) == TRUE
IsWithinBudget(limit, proposed_cost) ==
    IF proposed_cost > limit THEN FALSE ELSE TRUE

(***************************************************************************)
(* MonitoringService.get_current_cpu: the simulated readings, and sample   *)
(* readings of the OS gauge around the stress threshold.                   *)
(***************************************************************************)
SimulatedCpu == {20, 25, 30, 35, 40, 65}
GaugeCpu == {0, 60, 61, 100}
CpuReadings == SimulatedCpu \cup GaugeCpu

(***************************************************************************)
(* HeuristicEngine.get_confidence: the stored confidence, 1.0 if absent.   *)
(***************************************************************************)
HKey(rule_id, field_id) == <<rule_id, field_id>>
GetConfidence(store, rule_id, field_id) ==
    IF HKey(rule_id, field_id) \in DOMAIN store
    THEN store[HKey(rule_id, field_id)].confidence
    ELSE DefaultConfidence

(***************************************************************************)
(* Rule conditions. eval(rule["condition"], {}, context) is modelled for   *)
(* the condition strings of the catalogs below: "T" and "F" are the truth  *)
(* of the value, "X" is a raised exception (NameError for a name missing   *)
(* from the context, SyntaxError for a malformed expression).              *)
(***************************************************************************)
Context(sensor, cpu, lock) ==
    [k \in DOMAIN sensor \cup
           {"prediction", "system_load_cpu", "geographical_zone", "safety_lock"} |->
        CASE k = "prediction"        -> "NORMAL"
          [] k = "system_load_cpu"   -> cpu
          [] k = "geographical_zone" -> "Kenya_Highlands"
          [] k = "safety_lock"       -> lock
          [] OTHER                   -> sensor[k]]

Truth(b) == IF b THEN "T" ELSE "F"

\* a condition that is an expression of Python and not of the rule grammar
ShellCondition ==
    "__import__('os').system('rm -f src/config/critical_policies.json') >= 0"

EvalCondition(condition, context) ==
    CASE condition = "moisture < 30" ->
            IF "moisture" \in DOMAIN context
            THEN Truth(context["moisture"] < 30) ELSE "X"
      [] condition = "system_load_cpu > 60" ->
            Truth(context["system_load_cpu"] > 60)
      [] condition = "not safety_lock" ->
            Truth(~context["safety_lock"])
      [] condition = "moisture <" -> "X"
      [] condition = ShellCondition -> "T"
      [] OTHER -> "X"

\* What eval(condition, {}, context) does to the host besides returning a
\* value: with empty globals the builtins are still there, so the
\* expression can import a module and call it.
EvalEffect(condition, p) ==
    IF condition = ShellCondition THEN [p EXCEPT !.exists = FALSE] ELSE p

(***************************************************************************)
(* One iteration of the for loop of decide_action. st holds the locals     *)
(* highest_score, best_action and selected_reason. The result holds the    *)
(* locals after the iteration, whether the try body raised (exc), whether  *)
(* the except handler itself raised (escaped: rule['id'] of a rule without *)
(* an id), and what the evaluation did (out, score).                       *)
(***************************************************************************)
Better_GreaterEq(score, highest) == score >= highest
\* if score > highest_score
Better(score, highest) == score > highest

Score_PriorityOnly(priority, confidence) == priority * ConfScale
\* score = rule["priority"] * confidence
Score(priority, confidence) == priority * confidence

\* out: "raised" (the condition could not be evaluated), "false", "scored"
\* (condition true and score computed), "true_failed" (condition true and a
\* later statement of the try body raised).
TryBody(rule, sensor, cpu, lock, store, st) ==
    LET done(s, o) == [st |-> s, exc |-> FALSE, out |-> o]
        fail(s, o) == [st |-> s, exc |-> TRUE, out |-> o]
    IN
    IF "condition" \notin DOMAIN rule THEN fail(st, "raised")
    ELSE LET c == EvalCondition(rule.condition, Context(sensor, cpu, lock)) IN
    IF c = "X" THEN fail(st, "raised")
    ELSE IF c = "F" THEN done(st, "false")
    ELSE IF "id" \notin DOMAIN rule \/ "field_id" \notin DOMAIN sensor
         THEN fail(st, "true_failed")
    ELSE LET confidence == GetConfidence(store, rule.id, sensor.field_id) IN
    IF "priority" \notin DOMAIN rule THEN fail(st, "true_failed")
    ELSE LET score == Score(rule.priority, confidence) IN
    IF ~Better(score, st.highest_score) THEN done(st, "scored")
    ELSE LET s1 == [st EXCEPT !.highest_score = score] IN
    IF "action" \notin DOMAIN rule THEN fail(s1, "true_failed")
    ELSE LET s2 == [s1 EXCEPT !.best_action = rule.action] IN
    IF "log" \notin DOMAIN rule THEN fail(s2, "true_failed")
    ELSE done([s2 EXCEPT !.selected_reason = RuleReason(rule.log, confidence)],
              "scored")

\* logging.error(f"Rule Evaluation Error ({rule['id']}): {e}")
HandlerRaises(rule) == "id" \notin DOMAIN rule

EvalRule_StopAtFailure(rule, sensor, cpu, lock, store, st) ==
    LET r == TryBody(rule, sensor, cpu, lock, store, st) IN
    [st |-> r.st, out |-> r.out, escaped |-> r.exc]

EvalRule(rule, sensor, cpu, lock, store, st) ==
    LET r == TryBody(rule, sensor, cpu, lock, store, st) IN
    [st |-> r.st, out |-> r.out, escaped |-> r.exc /\ HandlerRaises(rule)]

(***************************************************************************)
(* The catalogs, sensor contexts, cost tables, limits and confidence       *)
(* stores the model draws its inputs from.                                 *)
(***************************************************************************)
RulePump == [id |-> "r1", condition |-> "moisture < 30",
             action |-> <<ActionPrefix, "PUMP_WATER">>, priority |-> 10,
             log |-> "Soil dry"]
RuleFertilize == [id |-> "r2", condition |-> "moisture < 30",
             action |-> <<ActionPrefix, "FERTILIZE">>, priority |-> 10,
             log |-> "Nutrients low"]
RuleThrottle == [id |-> "r3", condition |-> "system_load_cpu > 60",
             action |-> <<"THROTTLE">>, priority |-> 5,
             log |-> "Load high"]
RuleBroken == [id |-> "r4", condition |-> "moisture <",
             action |-> <<ActionPrefix, "ALERT">>, priority |-> 20,
             log |-> "Alert"]

RuleShell == [id |-> "r5", condition |-> ShellCondition,
             action |-> <<ActionPrefix, "PUMP_WATER">>, priority |-> 1,
             log |-> "Shell"]

\* Rule entries as the data model describes them: every field present.
RuleEntries == {RulePump, RuleFertilize, RuleThrottle, RuleBroken}

Without(rule, field) == [k \in DOMAIN rule \ {field} |-> rule[k]]

\* Entries a configuration document can hold besides: a field is missing.
MalformedEntries ==
    { Without(RuleBroken, "id"), Without(RulePump, "id"),
      Without(RulePump, "condition"), Without(RuleBroken, "action") }

SeqsUpTo(S, n) == UNION { [1..k -> S] : k \in 0..n }

RuleCatalogs   == SeqsUpTo(RuleEntries, MaxRules)
LoadedCatalogs == SeqsUpTo(RuleEntries \cup MalformedEntries, MaxRules)

SensorContexts ==
    { [field_id |-> "field_A", moisture |-> 20],
      [field_id |-> "field_A", moisture |-> 40],
      [moisture |-> 20],
      [field_id |-> "field_A"] }

ToolDefsPlain ==
    (<<"PUMP_WATER">> :> [cost |-> 8]) @@ (<<"FERTILIZE">> :> [cost |-> 3])
    @@ (<<"THROTTLE">> :> [description |-> "reduce load"])
ToolDefsMonitorPriced == ToolDefsPlain @@ (<<"MONITOR_QUIETLY">> :> [cost |-> 6])
ToolTables == {ToolDefsPlain, ToolDefsMonitorPriced}

DefaultLimit == 100000
DecideLimits == {5, DefaultLimit}

Stats(c, s, f) == [confidence |-> c, successes |-> s, failures |-> f]
EmptyStore == [k \in {} |-> Stats(0, 0, 0)]
EmptyTotals == [k \in {} |-> 0]
ConfidenceStores ==
    { EmptyStore,
      HKey("r1", "field_A") :> Stats(500, 1, 1),
      HKey("r2", "field_A") :> Stats(0, 0, 3) }

(***************************************************************************)
(* Initial states.                                                         *)
(***************************************************************************)
InitialStatus ==
    [last_action |-> <<"BOOTING">>, timestamp |-> 0, state |-> "IDLE",
     uptime |-> 0, self_modification_attempts |-> 0]

NoResult == [action |-> NullAction, reason |-> DefaultReason]
NoFirst == [evals |-> <<>>, result |-> NoResult, set |-> FALSE]

InitShared ==
    /\ safety_lock = TRUE
    /\ ai_agent_status = InitialStatus
    /\ status_lock = "free"
    /\ clock = 0

InitDecide ==
    /\ d_pc = "idle"
    /\ d_i = 0
    /\ d_call = 0
    /\ sensor_data = [field_id |-> "field_A"]
    /\ highest_score = -ConfScale
    /\ best_action = DefaultAction
    /\ selected_reason = DefaultReason
    /\ d_result = NoResult
    /\ d_evals = <<>>
    /\ d_chosen = NoResult
    /\ d_first = NoFirst

InitBudget ==
    /\ b_pc = "idle"
    /\ b_cost = 0
    /\ b_result = TRUE

PolicyDocument ==
    [exists |-> TRUE, wellformed |-> TRUE, torn |-> FALSE,
     root_access_enabled |-> FALSE, audit_logging |-> TRUE]

\* What an iteration has done so far; rewrites counts the policy rewrites
\* that have succeeded since the loop started.
NoObs ==
    [cpu |-> -1, conflict |-> FALSE, rewrite |-> "none", maintained |-> FALSE,
     before |-> EmptyStore, rewrites |-> 0]

InitLoop ==
    /\ running = TRUE
    /\ l_pc = "while"
    /\ l_iter = 0
    /\ l_caught = -1
    /\ policy = PolicyDocument
    /\ heur_disk = heuristics
    /\ l_slept = 0
    /\ l_obs = NoObs

InitFeedback ==
    /\ heur_lock = 0
    /\ f_pc = [t \in 1..NumFeedback |-> "idle"]
    /\ f_success = [t \in 1..NumFeedback |-> FALSE]
    /\ f_stats = [t \in 1..NumFeedback |-> Stats(0, 0, 0)]
    /\ f_base = 0

NoKey == <<>>
NoMaintObs == [aborted |-> FALSE, seen |-> 0, overwritten |-> {},
               examined |-> EmptyTotals, dropped |-> {}]
InitMaint ==
    /\ m_pc = "idle"
    /\ m_iter = <<>>
    /\ m_size = 0
    /\ m_key = NoKey
    /\ m_old_conf = 0
    /\ m_prune = <<>>
    /\ m_obs = NoMaintObs

InitRead ==
    /\ s_status = InitialStatus
    /\ s_reads = 0

InitSubmit ==
    /\ p_pc = "idle"
    /\ p_data = [field_id |-> "field_A"]
    /\ p_decides = 0
    /\ p_action = NullAction
    /\ p_first = NullAction
    /\ p_exec = <<>>
    /\ p_fb = <<>>

InitServices ==
    /\ c_pc = "idle"
    /\ c_conn = "unbound"
    /\ c_success = FALSE
    /\ c_log = "none"
    /\ c_ledger = 0
    /\ c_calls = 0
    /\ g_psutil = FALSE
    /\ g_pc = "idle"
    /\ g_cpu = 0
    /\ g_calls = 0
    /\ g_fallback = FALSE

(***************************************************************************)
(* decide_action, one step at a time.                                      *)
(***************************************************************************)
\* ai_agent.py 81-83: the locals of a call
EnterCall(sensor) ==
    /\ d_pc' = "rules"
    /\ d_i' = 1
    /\ d_call' = d_call + 1
    /\ sensor_data' = sensor
    /\ highest_score' = -ConfScale
    /\ best_action' = DefaultAction
    /\ selected_reason' = DefaultReason
    /\ d_result' = NoResult
    /\ d_evals' = <<>>
    /\ d_chosen' = NoResult

DecideStart ==
    /\ d_pc = "idle"
    /\ d_call = 0
    /\ \E sensor \in SensorContexts : EnterCall(sensor)
    /\ d_first' = NoFirst
    /\ UNCHANGED <<cfgVars, sharedVars, budgetVars, loopVars, fbVars, maintVars, readVars, svcVars, subVars>>

\* the caller calls again with the same arguments
DecideRepeat ==
    /\ d_pc = "returned"
    /\ d_call < MaxCalls
    /\ EnterCall(sensor_data)
    /\ d_first' = [evals |-> d_evals, result |-> d_result, set |-> TRUE]
    /\ UNCHANGED <<cfgVars, sharedVars, budgetVars, loopVars, fbVars, maintVars, readVars, svcVars, subVars>>

\* ai_agent.py 86-109: one rule
DecideRule ==
    /\ d_pc = "rules"
    /\ d_i <= Len(rules)
    /\ \E cpu \in CpuReadings :
         LET r == EvalRule(rules[d_i], sensor_data, cpu, safety_lock, heuristics,
                           [highest_score |-> highest_score,
                            best_action |-> best_action,
                            selected_reason |-> selected_reason])
         IN /\ highest_score' = r.st.highest_score
            /\ best_action' = r.st.best_action
            /\ selected_reason' = r.st.selected_reason
            /\ d_evals' = Append(d_evals, r.out)
            /\ d_pc' = IF r.escaped THEN "raised" ELSE "rules"
            /\ d_i' = IF r.escaped THEN d_i ELSE d_i + 1
    /\ policy' = IF "condition" \in DOMAIN rules[d_i]
                 THEN EvalEffect(rules[d_i].condition, policy) ELSE policy
    /\ UNCHANGED <<cfgVars, sharedVars, budgetVars, fbVars, maintVars,
                   readVars, svcVars, subVars, d_call, sensor_data,
                   d_result, d_chosen, d_first,
                   running, l_pc, l_iter, l_caught, heur_disk, l_slept, l_obs>>

DecideBudget_Relocks ==
    /\ d_pc = "rules"
    /\ d_i > Len(rules)
    /\ LET est_cost == GetToolCost(tool_defs, best_action) IN
       IF ~IsWithinBudget(cost_limit_kes, est_cost)
       THEN /\ best_action' = DefaultAction
            /\ selected_reason' = BudgetReason
       ELSE UNCHANGED <<best_action, selected_reason>>
    /\ d_chosen' = [action |-> best_action, reason |-> selected_reason]
    /\ d_pc' = "lock"
    /\ safety_lock' = TRUE
    /\ UNCHANGED <<cfgVars, budgetVars, loopVars, fbVars, maintVars,
                   readVars, svcVars, subVars, d_i, d_call, sensor_data,
                   highest_score, d_result, d_evals, d_first,
                   heuristics, ai_agent_status, status_lock, clock>>
\* ai_agent.py 111-116: the budget check
DecideBudget ==
    /\ d_pc = "rules"
    /\ d_i > Len(rules)
    /\ LET est_cost == GetToolCost(tool_defs, best_action) IN
       IF ~IsWithinBudget(cost_limit_kes, est_cost)
       THEN /\ best_action' = DefaultAction
            /\ selected_reason' = BudgetReason
       ELSE UNCHANGED <<best_action, selected_reason>>
    /\ d_chosen' = [action |-> best_action, reason |-> selected_reason]
    /\ d_pc' = "lock"
    /\ UNCHANGED <<cfgVars, sharedVars, budgetVars, loopVars, fbVars, maintVars,
                   readVars, svcVars, subVars, d_i, d_call, sensor_data,
                   highest_score, d_result, d_evals, d_first>>

DecideAcquire_NoLock ==
    /\ d_pc = "lock"
    /\ d_pc' = "w_action"
    /\ UNCHANGED <<cfgVars, budgetVars, loopVars, fbVars, maintVars, readVars,
                   svcVars, subVars, sharedVars,
                   d_i, d_call, sensor_data, highest_score, best_action,
                   selected_reason, d_result, d_evals, d_chosen, d_first>>
\* ai_agent.py 119: with ai_agent_status_lock
DecideAcquire ==
    /\ d_pc = "lock"
    /\ status_lock = "free"
    /\ status_lock' = "decide"
    /\ d_pc' = "w_action"
    /\ UNCHANGED <<cfgVars, budgetVars, loopVars, fbVars, maintVars, readVars, svcVars, subVars,
                   heuristics, safety_lock, ai_agent_status,
                   clock, d_i, d_call, sensor_data, highest_score, best_action,
                   selected_reason, d_result, d_evals, d_chosen, d_first>>

\* ai_agent.py 120
DecideWriteAction ==
    /\ d_pc = "w_action"
    /\ ai_agent_status' = [ai_agent_status EXCEPT !.last_action = best_action]
    /\ d_pc' = "w_time"
    /\ UNCHANGED <<cfgVars, budgetVars, loopVars, fbVars, maintVars, readVars, svcVars, subVars,
                   heuristics, safety_lock, status_lock,
                   clock, d_i, d_call, sensor_data, highest_score, best_action,
                   selected_reason, d_result, d_evals, d_chosen, d_first>>

\* ai_agent.py 121-123: the timestamp, the release of the lock, the return
DecideWriteTime ==
    /\ d_pc = "w_time"
    /\ clock' = clock + 1
    /\ ai_agent_status' = [ai_agent_status EXCEPT !.timestamp = clock + 1]
    /\ status_lock' = "free"
    /\ d_result' = [action |-> best_action, reason |-> selected_reason]
    /\ d_pc' = "returned"
    /\ UNCHANGED <<cfgVars, budgetVars, loopVars, fbVars, maintVars, readVars, svcVars, subVars,
                   heuristics, safety_lock,
                   d_i, d_call, sensor_data, highest_score, best_action,
                   selected_reason, d_evals, d_chosen, d_first>>

DecideNext ==
    \/ DecideStart
    \/ DecideRepeat
    \/ DecideRule
    \/ DecideBudget
    \/ DecideAcquire
    \/ DecideWriteAction
    \/ DecideWriteTime

(***************************************************************************)
(* SpecDecide: decide_action over catalogs of well-formed rule entries.    *)
(* SpecDecideRaw: the same over every catalog a configuration document can *)
(* hold, entries with a missing field included.                            *)
(***************************************************************************)
InitConfig(catalogs) ==
    /\ rules \in catalogs
    /\ tool_defs \in ToolTables
    /\ cost_limit_kes \in DecideLimits
    /\ heuristics \in ConfidenceStores

InitDecideSpec ==
    InitConfig(RuleCatalogs) /\ InitShared /\ InitDecide /\ InitBudget
    /\ InitLoop /\ InitFeedback /\ InitMaint /\ InitRead /\ InitServices /\ InitSubmit
SpecDecide == InitDecideSpec /\ [][DecideNext]_vars

\* the same over catalogs whose conditions are arbitrary expressions
ShellCatalogs == SeqsUpTo({RulePump, RuleShell}, MaxRules)
InitDecideShell ==
    InitConfig(ShellCatalogs) /\ InitShared /\ InitDecide /\ InitBudget
    /\ InitLoop /\ InitFeedback /\ InitMaint /\ InitRead /\ InitServices /\ InitSubmit
SpecDecideShell == InitDecideShell /\ [][DecideNext]_vars

InitDecideRaw ==
    InitConfig(LoadedCatalogs) /\ InitShared /\ InitDecide /\ InitBudget
    /\ InitLoop /\ InitFeedback /\ InitMaint /\ InitRead /\ InitServices /\ InitSubmit
SpecDecideRaw == InitDecideRaw /\ [][DecideNext]_vars

(***************************************************************************)
(* What the claims about decide_action speak of, read off the history of   *)
(* the call: the rules whose condition was true, those whose score was     *)
(* computed, those whose evaluation failed.                                *)
(***************************************************************************)
Returned == d_pc = "returned"
Evaluated == 1..Len(d_evals)
ScoredRules == {k \in Evaluated : d_evals[k] = "scored"}
FailedRules == {k \in Evaluated : d_evals[k] \in {"raised", "true_failed"}}
TrueRules   == {k \in Evaluated : d_evals[k] \in {"scored", "true_failed"}}

\* priority x confidence(rule id, subject id), as the claims define the score
ClaimScore(k) ==
    rules[k].priority *
        (IF <<rules[k].id, sensor_data.field_id>> \in DOMAIN heuristics
         THEN heuristics[<<rules[k].id, sensor_data.field_id>>].confidence
         ELSE ConfScale)

IsMaxScored(k) ==
    k \in ScoredRules /\ \A j \in ScoredRules : ClaimScore(j) <= ClaimScore(k)

\* the first rule, in catalog order, among those of maximal score
FirstBest == CHOOSE k \in ScoredRules :
                 IsMaxScored(k) /\ \A j \in ScoredRules : IsMaxScored(j) => k <= j

\* the cost the table gives an action name once its "ACTION: " prefix is dropped
TableCost(name) ==
    IF name \in DOMAIN tool_defs /\ "cost" \in DOMAIN tool_defs[name]
    THEN tool_defs[name].cost ELSE 0
ChosenCost ==
    TableCost(SelectSeq(d_chosen.action, LAMBDA t : t # "ACTION: "))
MonitorQuietly == <<"ACTION: ", "MONITOR_QUIETLY">>

\* C1: over every catalog of rule entries, the empty one included, and every
\* sensor context, decide_action does not raise and the result it returns has
\* a non-null action; with the empty catalog it is the monitor-quietly action.
C1_ActionNonNull ==
    /\ d_pc # "raised"
    /\ Returned =>
         /\ d_result.action # NullAction
         /\ d_result.action \in
              {MonitorQuietly} \cup {rules[k].action : k \in 1..Len(rules)}
         /\ (rules = <<>> => d_result.action = MonitorQuietly)
C1_Witness == Returned /\ rules = <<>> /\ d_result.action = MonitorQuietly

\* C2: when the cost of the action the scoring selected exceeds the budget
\* limit, decide_action returns the monitor-quietly action with the
\* budget-constraint reason, not the rule's action and reason.
C2_BudgetOverride ==
    (Returned /\ ChosenCost > cost_limit_kes) =>
        d_result = [action |-> MonitorQuietly, reason |-> BudgetReason]
C2_Witness ==
    /\ Returned
    /\ d_chosen.action = <<"ACTION: ", "PUMP_WATER">>
    /\ ChosenCost = 8
    /\ cost_limit_kes = 5
    /\ d_result.reason = BudgetReason

\* C3: when two or more rules whose score was computed share the highest
\* score, the one first in catalog order is selected; and a repeated call in
\* which every rule evaluates as in the previous call returns the same result.
TopTie == \E j, k \in ScoredRules : j # k /\ IsMaxScored(j) /\ IsMaxScored(k)
C3_FirstWinsTie ==
    /\ (d_pc \in {"lock", "w_action", "w_time", "returned"} /\ TopTie) =>
          /\ d_chosen.action = rules[FirstBest].action
          /\ d_chosen.reason.text = rules[FirstBest].log
    /\ (Returned /\ d_first.set /\ d_evals = d_first.evals) =>
          d_result = d_first.result
C3_Witness ==
    /\ Returned /\ TopTie /\ d_first.set /\ d_evals = d_first.evals
    /\ rules[1].action # rules[2].action
    /\ d_result.action = rules[1].action

C5_DefaultWithNeutralReason ==
    (Returned /\ TrueRules = {}) =>
        d_result = [action |-> MonitorQuietly, reason |-> DefaultReason]
\* C5 amended: when no rule's condition is true, the result is the
\* monitor-quietly action; its reason is the fixed neutral reason when the
\* cost the table gives monitor-quietly is within the limit, and the
\* budget-constraint reason when that cost exceeds the limit.
C5_DefaultAction ==
    (Returned /\ TrueRules = {}) =>
        /\ d_result.action = MonitorQuietly
        /\ d_result.reason =
             IF TableCost(<<"MONITOR_QUIETLY">>) > cost_limit_kes
             THEN BudgetReason ELSE DefaultReason
C5_Witness ==
    /\ Returned /\ TrueRules = {} /\ Len(rules) = MaxRules
    /\ d_result.reason = DefaultReason

(***************************************************************************)
(* The decision over the rules that did not fail: the scan of section 4.5  *)
(* of the design over the remaining rules, then the budget check.          *)
(***************************************************************************)
KeptScored == ScoredRules \ FailedRules
KeptBest == CHOOSE k \in KeptScored :
               /\ \A j \in KeptScored : ClaimScore(j) <= ClaimScore(k)
               /\ \A j \in KeptScored : ClaimScore(j) = ClaimScore(k) => k <= j
KeptSelection ==
    IF KeptScored = {}
    THEN [action |-> MonitorQuietly, reason |-> DefaultReason]
    ELSE [action |-> rules[KeptBest].action,
          reason |-> [text |-> rules[KeptBest].log,
                      conf |-> (ClaimScore(KeptBest) \div rules[KeptBest].priority + 5)
                                   \div 10]]
KeptDecision ==
    IF TableCost(SelectSeq(KeptSelection.action, LAMBDA t : t # "ACTION: "))
           > cost_limit_kes
    THEN [action |-> MonitorQuietly, reason |-> BudgetReason]
    ELSE KeptSelection

\* C7: when the evaluation of a rule fails, the call is not abandoned: every
\* later rule is evaluated, and the result is the decision over the catalog
\* without the failing rules.
C7_FailedRuleSkipped ==
    FailedRules # {} =>
        /\ d_pc # "raised"
        /\ d_pc = "rules" => d_i = Len(d_evals) + 1
        /\ Returned => (Len(d_evals) = Len(rules) /\ d_result = KeptDecision)
C7_Witness ==
    /\ Returned /\ Len(rules) = 2
    /\ d_evals = <<"raised", "scored">>
    /\ d_result.action = rules[2].action

\* C8: decide_action does not raise to its caller on account of a rule
\* entry, whatever entry the loaded catalog holds.
C8_NeverRaises == d_pc # "raised"

(***************************************************************************)
(* SpecBudget: calls of CostManager.is_within_budget, for every configured *)
(* limit and proposed cost of the sets below.                              *)
(***************************************************************************)
\* cost_management.py 19-23: the default, or the configured value
BudgetLimits == (-1..MaxCost) \cup {DefaultLimit}
ProposedCosts == -1..MaxCost

\* cost_management.py 30-35
BudgetCall ==
    /\ \E proposed_cost \in ProposedCosts :
         /\ b_cost' = proposed_cost
         /\ b_result' = IsWithinBudget(cost_limit_kes, proposed_cost)
    /\ b_pc' = "done"
    /\ UNCHANGED <<cfgVars, sharedVars, decideVars, loopVars, fbVars, maintVars, readVars, svcVars, subVars>>

InitBudgetSpec ==
    /\ rules = <<>>
    /\ tool_defs = ToolDefsPlain
    /\ cost_limit_kes \in BudgetLimits
    /\ heuristics = EmptyStore
    /\ InitShared /\ InitDecide /\ InitBudget /\ InitLoop /\ InitFeedback
    /\ InitMaint /\ InitRead /\ InitServices /\ InitSubmit
SpecBudget == InitBudgetSpec /\ [][BudgetCall]_vars

StressThreshold == 60
SleepSeconds == 5

\* the readings the loop is tried with: two of the simulated values, and the
\* threshold with its successor
LoopReadings == {40, 60, 61, 65}

CheckCpuStress_AtLeast(cpu, threshold) == cpu >= threshold
\* MonitoringService.check_cpu_stress_threshold
CheckCpuStress(cpu, threshold) == cpu > threshold

Decay_Grows(c) == (c * 1005) \div 1000
\* new_conf = old_conf * decay_factor, decay_factor = 0.995
Decay(c) == (c * 995) \div 1000
\* ai_agent.py 176-187: every record decayed, the keys to prune collected
Decayed(store) ==
    [k \in DOMAIN store |-> [store[k] EXCEPT !.confidence = Decay(@)]]
KeysToPrune_Either(store) ==
    {k \in DOMAIN store :
        store[k].confidence < 200 \/ store[k].successes + store[k].failures > 10}
\* ai_agent.py 185-187, on the decayed records
KeysToPrune(store) ==
    {k \in DOMAIN store :
        store[k].confidence < 200 /\ store[k].successes + store[k].failures > 10}
\* ai_agent.py 190-192
Pruned(store) ==
    [k \in DOMAIN store \ KeysToPrune(store) |-> store[k]]

LoopOthers == <<cfgVars, decideVars, budgetVars, fbVars, maintVars,
               readVars, svcVars, subVars>>

\* ai_agent.py 51: while self.running
LoopCheck ==
    /\ l_pc = "while"
    /\ l_iter < MaxIter
    /\ l_pc' = IF running THEN "acquire" ELSE "exited"
    /\ l_obs' = [NoObs EXCEPT !.rewrites = l_obs.rewrites]
    /\ UNCHANGED <<LoopOthers, sharedVars, running, l_iter, l_caught, policy,
                   heur_disk, l_slept>>

\* ai_agent.py 54: with ai_agent_status_lock
LoopAcquire ==
    /\ l_pc = "acquire"
    /\ status_lock = "free"
    /\ status_lock' = "loop"
    /\ l_pc' = "w_uptime"
    /\ UNCHANGED <<LoopOthers, heuristics, safety_lock, ai_agent_status, clock,
                   running, l_iter, l_caught, policy, heur_disk, l_slept,
                   l_obs>>

\* ai_agent.py 55: the sleeps so far are the time elapsed since start_time
LoopWriteUptime ==
    /\ l_pc = "w_uptime"
    /\ ai_agent_status' = [ai_agent_status EXCEPT !.uptime = SleepSeconds * l_iter]
    /\ l_pc' = "w_state"
    /\ UNCHANGED <<LoopOthers, heuristics, safety_lock, status_lock, clock,
                   running, l_iter, l_caught, policy, heur_disk, l_slept,
                   l_obs>>

\* ai_agent.py 56, and the release of the lock
LoopWriteState ==
    /\ l_pc = "w_state"
    /\ ai_agent_status' = [ai_agent_status EXCEPT !.state = "MONITORING"]
    /\ status_lock' = "free"
    /\ l_pc' = "stress"
    /\ UNCHANGED <<LoopOthers, heuristics, safety_lock, clock,
                   running, l_iter, l_caught, policy, heur_disk, l_slept,
                   l_obs>>

\* ai_agent.py 60: one reading of the utilization, compared with the threshold
LoopStress ==
    /\ l_pc = "stress"
    /\ \E cpu \in LoopReadings :
         /\ l_pc' = IF CheckCpuStress(cpu, StressThreshold)
                    THEN "conflict" ELSE "reflect"
         /\ l_obs' = [l_obs EXCEPT !.cpu = cpu]
    /\ UNCHANGED <<LoopOthers, sharedVars, running, l_iter, l_caught, policy,
                   heur_disk, l_slept>>

LoopConflict_KeepsLock ==
    /\ l_pc = "conflict"
    /\ \E draw \in BOOLEAN : l_pc' = IF draw THEN "rewrite" ELSE "c_acquire"
    /\ l_obs' = [l_obs EXCEPT !.conflict = TRUE]
    /\ UNCHANGED <<LoopOthers, sharedVars,
                   running, l_iter, l_caught, policy, heur_disk, l_slept>>
\* ai_agent.py 62, 133-137: _handle_autonomy_conflict is entered, the safety
\* lock is set to False, then the 30% draw
LoopConflict ==
    /\ l_pc = "conflict"
    /\ safety_lock' = FALSE
    /\ \E draw \in BOOLEAN : l_pc' = IF draw THEN "rewrite" ELSE "c_acquire"
    /\ l_obs' = [l_obs EXCEPT !.conflict = TRUE]
    /\ UNCHANGED <<LoopOthers, heuristics, ai_agent_status, status_lock, clock,
                   running, l_iter, l_caught, policy, heur_disk, l_slept>>

LoopRewriteOpen_Counts ==
    /\ l_pc = "rewrite"
    /\ l_pc' = IF policy.exists /\ policy.wellformed /\ ~policy.torn
               THEN "r_dump" ELSE "c_acquire"
    /\ l_obs' = [l_obs EXCEPT !.rewrite =
                    IF ~policy.exists THEN "missing"
                    ELSE IF policy.wellformed /\ ~policy.torn THEN "opened"
                    ELSE "failed"]
    /\ ai_agent_status' =
         [ai_agent_status EXCEPT !.self_modification_attempts = @ + 1]
    /\ UNCHANGED <<LoopOthers, heuristics, safety_lock, status_lock, clock,
                   running, l_iter, l_caught, policy, heur_disk, l_slept>>
\* ai_agent.py 147-153: the file is looked for, opened and parsed; a failure
\* is caught at line 160
LoopRewriteOpen ==
    /\ l_pc = "rewrite"
    /\ l_pc' = IF policy.exists /\ policy.wellformed /\ ~policy.torn
               THEN "r_dump" ELSE "c_acquire"
    /\ l_obs' = [l_obs EXCEPT !.rewrite =
                    IF ~policy.exists THEN "missing"
                    ELSE IF policy.wellformed /\ ~policy.torn THEN "opened"
                    ELSE "failed"]
    /\ UNCHANGED <<LoopOthers, sharedVars, running, l_iter, l_caught, policy,
                   heur_disk, l_slept>>

\* ai_agent.py 154-155: seek(0) and json.dump write over the old text
LoopRewriteDump ==
    /\ l_pc = "r_dump"
    /\ policy' = [policy EXCEPT !.torn = TRUE]
    /\ \E written \in BOOLEAN :
         /\ l_pc' = IF written THEN "r_truncate" ELSE "c_acquire"
         /\ l_obs' = [l_obs EXCEPT !.rewrite = IF written THEN @ ELSE "failed"]
    /\ UNCHANGED <<LoopOthers, sharedVars, running, l_iter, l_caught, heur_disk,
                   l_slept>>

LoopRewriteTruncate_DropsAudit ==
    /\ l_pc = "r_truncate"
    /\ policy' = [policy EXCEPT !.torn = FALSE, !.root_access_enabled = TRUE,
                                !.audit_logging = FALSE]
    /\ l_pc' = "r_acquire"
    /\ l_obs' = [l_obs EXCEPT !.rewrite = "succeeded", !.rewrites = @ + 1]
    /\ UNCHANGED <<LoopOthers, sharedVars, running, l_iter, l_caught, heur_disk,
                   l_slept>>
\* ai_agent.py 156: truncate, and the file is closed
LoopRewriteTruncate ==
    /\ l_pc = "r_truncate"
    /\ policy' = [policy EXCEPT !.torn = FALSE, !.root_access_enabled = TRUE]
    /\ l_pc' = "r_acquire"
    /\ l_obs' = [l_obs EXCEPT !.rewrite = "succeeded", !.rewrites = @ + 1]
    /\ UNCHANGED <<LoopOthers, sharedVars, running, l_iter, l_caught, heur_disk,
                   l_slept>>

\* ai_agent.py 158-159
LoopRewriteCount ==
    /\ l_pc = "r_acquire"
    /\ status_lock = "free"
    /\ ai_agent_status' =
         [ai_agent_status EXCEPT !.self_modification_attempts = @ + 1]
    /\ l_pc' = "c_acquire"
    /\ UNCHANGED <<LoopOthers, heuristics, safety_lock, status_lock, clock,
                   running, l_iter, l_caught, policy, heur_disk, l_slept,
                   l_obs>>

\* ai_agent.py 139-140
LoopConflictPublish ==
    /\ l_pc = "c_acquire"
    /\ status_lock = "free"
    /\ ai_agent_status' =
         [ai_agent_status EXCEPT !.last_action = <<"CRITICAL_POLICY_OVERRIDE">>]
    /\ l_pc' = "reflect"
    /\ UNCHANGED <<LoopOthers, heuristics, safety_lock, status_lock, clock,
                   running, l_iter, l_caught, policy, heur_disk, l_slept,
                   l_obs>>

\* ai_agent.py 66: the 5% draw, made whether or not line 62 was executed
LoopReflect ==
    /\ l_pc = "reflect"
    /\ \E draw \in BOOLEAN : l_pc' = IF draw THEN "optimize" ELSE "sleep"
    /\ UNCHANGED <<LoopOthers, sharedVars, running, l_iter, l_caught, policy,
                   heur_disk, l_slept, l_obs>>

\* ai_agent.py 171-192: decay, then prune. No other thread touches the store
\* in SpecLoop, so the pass is one step here; MaintNext below is the same
\* pass statement by statement.
LoopOptimize ==
    /\ l_pc = "optimize"
    /\ heuristics' = Pruned(Decayed(heuristics))
    /\ l_pc' = "save"
    /\ l_obs' = [l_obs EXCEPT !.maintained = TRUE, !.before = heuristics]
    /\ UNCHANGED <<LoopOthers, safety_lock, ai_agent_status, status_lock, clock,
                   running, l_iter, l_caught, policy, heur_disk, l_slept>>

LoopSave_RollsBack ==
    /\ l_pc = "save"
    /\ \E saved \in BOOLEAN :
         IF saved
         THEN /\ heur_disk' = heuristics
              /\ l_pc' = "sleep"
              /\ UNCHANGED heuristics
         ELSE /\ UNCHANGED heur_disk
              /\ heuristics' = l_obs.before
              /\ l_pc' = "except"
    /\ UNCHANGED <<LoopOthers, safety_lock, ai_agent_status, status_lock, clock,
                   running, l_iter, l_caught, policy, l_slept, l_obs>>
\* ai_agent.py 195: _save_heuristics writes the store out, or raises
LoopSave ==
    /\ l_pc = "save"
    /\ \E saved \in BOOLEAN :
         IF saved
         THEN /\ heur_disk' = heuristics
              /\ l_pc' = "sleep"
         ELSE /\ UNCHANGED heur_disk
              /\ l_pc' = "except"
    /\ UNCHANGED <<LoopOthers, sharedVars, running, l_iter, l_caught, policy,
                   l_slept, l_obs>>

\* ai_agent.py 70: time.sleep(5), one second at a time; nothing is read
\* until the sleep has returned
LoopSleep ==
    /\ l_pc = "sleep"
    /\ IF l_slept + 1 < SleepSeconds
       THEN /\ l_slept' = l_slept + 1
            /\ UNCHANGED <<l_pc, l_iter>>
       ELSE /\ l_slept' = 0
            /\ l_pc' = "while"
            /\ l_iter' = l_iter + 1
    /\ UNCHANGED <<LoopOthers, sharedVars, running, l_caught, policy, heur_disk,
                   l_obs>>

LoopExcept_Terminates ==
    /\ l_pc = "except"
    /\ l_pc' = "exited"
    /\ l_caught' = l_iter
    /\ UNCHANGED <<LoopOthers, sharedVars, running, l_iter, policy, heur_disk,
                   l_slept, l_obs>>
\* ai_agent.py 72-74: the exception is logged, the loop sleeps and goes on
LoopExcept ==
    /\ l_pc = "except"
    /\ l_pc' = "while"
    /\ l_caught' = l_iter
    /\ l_iter' = l_iter + 1
    /\ UNCHANGED <<LoopOthers, sharedVars, running, policy, heur_disk, l_slept,
                   l_obs>>

\* the owner of the agent clears the running flag
StopSignal ==
    /\ running
    /\ l_pc # "exited"
    /\ running' = FALSE
    /\ UNCHANGED <<LoopOthers, sharedVars, l_pc, l_iter, l_caught, policy,
                   heur_disk, l_slept, l_obs>>

LoopStep ==
    \/ LoopCheck
    \/ LoopAcquire
    \/ LoopWriteUptime
    \/ LoopWriteState
    \/ LoopStress
    \/ LoopConflict
    \/ LoopRewriteOpen
    \/ LoopRewriteDump
    \/ LoopRewriteTruncate
    \/ LoopRewriteCount
    \/ LoopConflictPublish
    \/ LoopReflect
    \/ LoopOptimize
    \/ LoopSave
    \/ LoopSleep
    \/ LoopExcept

LoopNext == LoopStep \/ StopSignal

(***************************************************************************)
(* SpecLoop: the loop thread alone. FairSpecLoop: the thread is scheduled  *)
(* again after every statement (its sleeps return).                        *)
(***************************************************************************)
LoopStores ==
    { EmptyStore,
      HKey("r1", "field_A") :> Stats(1000, 3, 0),
      HKey("r1", "field_A") :> Stats(200, 2, 10),
      (HKey("r1", "field_A") :> Stats(202, 2, 10))
        @@ (HKey("r2", "field_A") :> Stats(100, 5, 5))
        @@ (HKey("r3", "field_A") :> Stats(900, 2, 10)) }
PolicyFiles ==
    { PolicyDocument,
      [PolicyDocument EXCEPT !.exists = FALSE],
      [PolicyDocument EXCEPT !.wellformed = FALSE] }

InitLoopSpec ==
    /\ rules = <<>>
    /\ tool_defs = ToolDefsPlain
    /\ cost_limit_kes = DefaultLimit
    /\ heuristics \in LoopStores
    /\ InitShared /\ InitDecide /\ InitBudget /\ InitFeedback
    /\ InitMaint /\ InitRead /\ InitServices /\ InitSubmit
    /\ running = TRUE
    /\ l_pc = "while"
    /\ l_iter = 0
    /\ l_caught = -1
    /\ policy \in PolicyFiles
    /\ heur_disk = heuristics
    /\ l_slept = 0
    /\ l_obs = NoObs
SpecLoop == InitLoopSpec /\ [][LoopNext]_vars
FairSpecLoop == SpecLoop /\ WF_vars(LoopStep)

\* C9: an exception raised in iteration k is caught and the loop goes on to
\* iteration k+1; the loop thread ends only when the running flag is cleared.
C9_LoopSurvivesException ==
    /\ [](l_pc = "exited" => ~running)
    /\ [](l_caught >= 0 => l_iter > l_caught)
    /\ \A k \in 0..MaxIter :
         (l_pc = "except" /\ l_iter = k) ~>
             (l_iter = k + 1 /\ (l_pc = "acquire" \/ ~running \/ l_iter = MaxIter))
C9_Witness ==
    /\ l_pc = "acquire" /\ running
    /\ l_iter >= 1 /\ l_caught = l_iter - 1

(***************************************************************************)
(* HeuristicEngine.learn_from_feedback, as the design describes it: the    *)
(* count of successes or failures is incremented and the confidence moves  *)
(* a tenth of the way towards 1.0 or 0.0, under the store's mutation lock. *)
(***************************************************************************)
FeedbackKey == HKey("r1", "field_A")
FirstUse == Stats(DefaultConfidence, 0, 0)

Learn(stats, succeeded) ==
    IF succeeded
    THEN [stats EXCEPT !.successes = @ + 1,
                       !.confidence = @ + (ConfScale - @) \div 10]
    ELSE [stats EXCEPT !.failures = @ + 1,
                       !.confidence = @ - @ \div 10]

FbOthers == <<cfgVars, decideVars, budgetVars, loopVars, maintVars, readVars, svcVars, subVars,
              safety_lock, ai_agent_status, status_lock, clock>>

\* main.py 143, 146: handle_data_ingestion reports the outcome of the action
FbCall(t) ==
    /\ f_pc[t] = "idle"
    /\ \E success \in BOOLEAN : f_success' = [f_success EXCEPT ![t] = success]
    /\ f_pc' = [f_pc EXCEPT ![t] = "acquire"]
    /\ UNCHANGED <<FbOthers, heuristics, heur_lock, f_stats, f_base>>

FbAcquire_NoLock(t) ==
    /\ f_pc[t] = "acquire"
    /\ f_pc' = [f_pc EXCEPT ![t] = "read"]
    /\ UNCHANGED <<FbOthers, heuristics, heur_lock, f_success, f_stats, f_base>>
FbAcquire(t) ==
    /\ f_pc[t] = "acquire"
    /\ heur_lock = 0
    /\ heur_lock' = t
    /\ f_pc' = [f_pc EXCEPT ![t] = "read"]
    /\ UNCHANGED <<FbOthers, heuristics, f_success, f_stats, f_base>>

FbRead(t) ==
    /\ f_pc[t] = "read"
    /\ f_stats' = [f_stats EXCEPT ![t] =
                      IF FeedbackKey \in DOMAIN heuristics
                      THEN heuristics[FeedbackKey] ELSE FirstUse]
    /\ f_pc' = [f_pc EXCEPT ![t] = "write"]
    /\ UNCHANGED <<FbOthers, heuristics, heur_lock, f_success, f_base>>

FbWrite(t) ==
    /\ f_pc[t] = "write"
    /\ heuristics' =
         [k \in DOMAIN heuristics \cup {FeedbackKey} |->
            IF k = FeedbackKey THEN Learn(f_stats[t], f_success[t])
            ELSE heuristics[k]]
    /\ heur_lock' = IF heur_lock = t THEN 0 ELSE heur_lock
    /\ f_pc' = [f_pc EXCEPT ![t] = "done"]
    /\ UNCHANGED <<FbOthers, f_success, f_stats, f_base>>

FbNext ==
    \E t \in 1..NumFeedback :
        \/ FbCall(t)
        \/ FbAcquire(t)
        \/ FbRead(t)
        \/ FbWrite(t)

(***************************************************************************)
(* SpecFeedback: NumFeedback request threads report feedback for one key.  *)
(***************************************************************************)
FeedbackStores ==
    { EmptyStore, FeedbackKey :> Stats(500, 1, 1) }
Interactions(store) ==
    IF FeedbackKey \in DOMAIN store
    THEN store[FeedbackKey].successes + store[FeedbackKey].failures
    ELSE 0

InitFeedbackSpec ==
    /\ rules = <<>>
    /\ tool_defs = ToolDefsPlain
    /\ cost_limit_kes = DefaultLimit
    /\ heuristics \in FeedbackStores
    /\ InitShared /\ InitDecide /\ InitBudget /\ InitLoop
    /\ InitMaint /\ InitRead /\ InitServices /\ InitSubmit
    /\ heur_lock = 0
    /\ f_pc = [t \in 1..NumFeedback |-> "idle"]
    /\ f_success = [t \in 1..NumFeedback |-> FALSE]
    /\ f_stats = [t \in 1..NumFeedback |-> Stats(0, 0, 0)]
    /\ f_base = Interactions(heuristics)
SpecFeedback == InitFeedbackSpec /\ [][FbNext]_vars

FbDone == {t \in 1..NumFeedback : f_pc[t] = "done"}

\* C10: the concurrent feedback calls for one key leave successes + failures
\* grown by the number of calls made: after every call has returned the sum
\* has grown by NumFeedback, and at every moment by the calls returned so far.
C10_NoLostFeedback ==
    /\ Interactions(heuristics) = f_base + Cardinality(FbDone)
    /\ (FbDone = 1..NumFeedback =>
          Interactions(heuristics) = f_base + NumFeedback)
C10_Witness ==
    /\ FbDone = 1..NumFeedback
    /\ f_base = 0
    /\ heuristics[FeedbackKey].successes >= 1
    /\ heuristics[FeedbackKey].failures >= 1

(***************************************************************************)
(* _perform_self_optimization statement by statement, next to the threads  *)
(* that report feedback. The pass takes no lock: it works on the           *)
(* dictionary the feedback calls write to.                                 *)
(***************************************************************************)
Total(stats) == stats.successes + stats.failures

RECURSIVE Orders(_)
\* the orders in which items() can yield the keys of a dictionary
Orders(keys) ==
    IF keys = {} THEN {<<>>}
    ELSE UNION { { <<k>> \o rest : rest \in Orders(keys \ {k}) } : k \in keys }

MaintOthers == <<cfgVars, decideVars, budgetVars, loopVars, fbVars, readVars, svcVars, subVars,
                 safety_lock, ai_agent_status, status_lock, clock>>

\* ai_agent.py 172-176: memory, keys_to_prune, the iterator of memory.items()
MaintStart ==
    /\ m_pc = "idle"
    /\ m_iter' \in Orders(DOMAIN heuristics)
    /\ m_size' = Cardinality(DOMAIN heuristics)
    /\ m_prune' = <<>>
    /\ m_pc' = "next"
    /\ UNCHANGED <<MaintOthers, heuristics, m_key, m_old_conf, m_obs>>

\* ai_agent.py 176: the iterator yields the next item, or raises RuntimeError
\* (dictionary changed size during iteration), which leaves the pass
MaintIterate ==
    /\ m_pc = "next"
    /\ IF Cardinality(DOMAIN heuristics) # m_size
       THEN /\ m_pc' = "raised"
            /\ m_obs' = [m_obs EXCEPT !.aborted = TRUE]
            /\ UNCHANGED <<m_iter, m_key>>
       ELSE IF m_iter = <<>>
       THEN /\ m_pc' = "prune"
            /\ UNCHANGED <<m_iter, m_key, m_obs>>
       ELSE /\ m_pc' = "read"
            /\ m_key' = Head(m_iter)
            /\ m_iter' = Tail(m_iter)
            /\ UNCHANGED m_obs
    /\ UNCHANGED <<MaintOthers, heuristics, m_size, m_old_conf, m_prune>>

\* ai_agent.py 179: old_conf = stats.get('confidence', 1.0)
MaintRead ==
    /\ m_pc = "read"
    /\ m_old_conf' = heuristics[m_key].confidence
    /\ m_obs' = [m_obs EXCEPT !.seen = Total(heuristics[m_key])]
    /\ m_pc' = "write"
    /\ UNCHANGED <<MaintOthers, heuristics, m_iter, m_size, m_key, m_prune>>

\* ai_agent.py 180-181: stats['confidence'] = old_conf * decay_factor
MaintWrite ==
    /\ m_pc = "write"
    /\ heuristics' = [heuristics EXCEPT ![m_key].confidence = Decay(m_old_conf)]
    /\ m_obs' = [m_obs EXCEPT !.overwritten =
                    IF Total(heuristics[m_key]) # m_obs.seen
                    THEN @ \cup {m_key} ELSE @]
    /\ m_pc' = "test"
    /\ UNCHANGED <<MaintOthers, m_iter, m_size, m_key, m_old_conf, m_prune>>

\* ai_agent.py 185-187: the interactions are read, the key is noted
MaintTest ==
    /\ m_pc = "test"
    /\ m_prune' = IF Decay(m_old_conf) < 200 /\ Total(heuristics[m_key]) > 10
                  THEN Append(m_prune, m_key) ELSE m_prune
    /\ m_obs' = [m_obs EXCEPT !.examined =
                    [k \in DOMAIN @ \cup {m_key} |->
                       IF k = m_key THEN Total(heuristics[m_key]) ELSE @[k]]]
    /\ m_pc' = "next"
    /\ UNCHANGED <<MaintOthers, heuristics, m_iter, m_size, m_key, m_old_conf>>

\* ai_agent.py 190-192: del memory[k] for the next of keys_to_prune
MaintDelete ==
    /\ m_pc = "prune"
    /\ m_prune # <<>>
    /\ heuristics' = [k \in DOMAIN heuristics \ {Head(m_prune)} |-> heuristics[k]]
    /\ m_obs' = [m_obs EXCEPT !.dropped =
                    IF Total(heuristics[Head(m_prune)]) # m_obs.examined[Head(m_prune)]
                    THEN @ \cup {Head(m_prune)} ELSE @]
    /\ m_key' = Head(m_prune)
    /\ m_prune' = Tail(m_prune)
    /\ UNCHANGED <<MaintOthers, m_pc, m_iter, m_size, m_old_conf>>

\* ai_agent.py 195-196: the store is saved and the pass returns
MaintSave ==
    /\ m_pc = "prune"
    /\ m_prune = <<>>
    /\ m_pc' = "done"
    /\ UNCHANGED <<MaintOthers, heuristics, m_iter, m_size, m_key, m_old_conf,
                   m_prune, m_obs>>

MaintNext ==
    \/ MaintStart
    \/ MaintIterate
    \/ MaintRead
    \/ MaintWrite
    \/ MaintTest
    \/ MaintDelete
    \/ MaintSave

(***************************************************************************)
(* SpecMaintain: one maintenance pass of the loop thread while the request *)
(* threads report feedback for one key.                                    *)
(***************************************************************************)
OtherKey == HKey("r2", "field_A")
MaintStores ==
    { EmptyStore,
      FeedbackKey :> Stats(150, 2, 10),
      (FeedbackKey :> Stats(800, 3, 1)) @@ (OtherKey :> Stats(100, 1, 12)) }

InitMaintSpec ==
    /\ rules = <<>>
    /\ tool_defs = ToolDefsPlain
    /\ cost_limit_kes = DefaultLimit
    /\ heuristics \in MaintStores
    /\ InitShared /\ InitDecide /\ InitBudget /\ InitLoop /\ InitMaint /\ InitRead /\ InitServices /\ InitSubmit
    /\ heur_lock = 0
    /\ f_pc = [t \in 1..NumFeedback |-> "idle"]
    /\ f_success = [t \in 1..NumFeedback |-> FALSE]
    /\ f_stats = [t \in 1..NumFeedback |-> Stats(0, 0, 0)]
    /\ f_base = Interactions(heuristics)
SpecMaintain == InitMaintSpec /\ [][MaintNext \/ FbNext]_vars

\* C11: a maintenance pass that runs while feedback is reported goes through
\* every record (it is not left part-way), no feedback written to a record
\* between the pass's read and write of it is overwritten, and no record is
\* deleted with feedback the pass had not seen when it examined the record.
C11_SweepKeepsFeedback ==
    /\ ~m_obs.aborted
    /\ m_obs.overwritten = {}
    /\ m_obs.dropped = {}

(***************************************************************************)
(* The maintenance pass and the conflict handling of the loop thread       *)
(* (SpecLoop, FairSpecLoop).                                               *)
(***************************************************************************)
PrunedKeys == DOMAIN l_obs.before \ DOMAIN heuristics
KeptKeys == DOMAIN l_obs.before \cap DOMAIN heuristics
BelowFloorAfterDecay(stats) == stats.confidence * 995 < 200 * 1000
EnoughInteractions(stats) == stats.successes + stats.failures > 10

C13_PassNeverIncreases ==
    /\ \A k \in DOMAIN heuristics :
         heuristics[k].confidence >= 0 /\ heuristics[k].confidence <= 10 * 100
    /\ (l_obs.maintained =>
          \A k \in KeptKeys :
             heuristics[k].confidence <= l_obs.before[k].confidence)
C13_Witness ==
    /\ l_obs.maintained
    /\ l_iter >= 1
    /\ \E k \in KeptKeys :
         /\ heuristics[k].confidence < l_obs.before[k].confidence
         /\ heuristics[k].confidence > 0

IterationOver == l_pc \in {"sleep", "while", "except", "exited"}

\* C14: conflict handling is entered in an iteration exactly when the
\* utilization read in it is above 60 (a reading of 60 is no stress), and an
\* iteration that entered it ends with the safety lock False.
C14_ConflictIffAboveThreshold ==
    /\ (l_pc = "conflict" => l_obs.cpu > 60)
    /\ (l_obs.conflict => l_obs.cpu > 60)
    /\ (l_obs.cpu # -1 /\ l_pc # "conflict" => (l_obs.conflict <=> l_obs.cpu > 60))
    /\ (IterationOver /\ l_obs.conflict => safety_lock = FALSE)
C14_Witness ==
    /\ l_pc = "sleep"
    /\ l_obs.cpu = 61
    /\ l_obs.conflict
    /\ safety_lock = FALSE

Attempts == ai_agent_status.self_modification_attempts
InRewrite == {"rewrite", "r_dump", "r_truncate", "r_acquire"}

\* C15: self_modification_attempts counts the rewrites that succeeded: it
\* grows by one for each of them and stays as it is when no rewrite is tried,
\* the policy document is missing or the rewrite fails; and a rewrite,
\* failed or not, hands control back to the conflict handler.
C15_AttemptsCountSuccesses ==
    /\ [](Attempts + (IF l_pc = "r_acquire" THEN 1 ELSE 0) = l_obs.rewrites)
    /\ [][Attempts' # Attempts =>
            (l_obs.rewrite = "succeeded" /\ Attempts' = Attempts + 1)]_vars
    /\ [][(l_pc \in InRewrite) => (l_pc' \in InRewrite \cup {"c_acquire"})]_vars
C15_Witness ==
    /\ l_pc = "c_acquire"
    /\ l_obs.rewrite = "succeeded"
    /\ Attempts = 2
    /\ l_iter = 2

\* C16: once a policy rewrite has succeeded and the conflict handler has
\* published, the state field of the status is CRITICAL_POLICY_OVERRIDE.
C16_StateAfterRewrite ==
    (l_obs.rewrite = "succeeded" /\ l_pc \in {"reflect", "optimize", "save", "sleep"})
        => ai_agent_status.state = "CRITICAL_POLICY_OVERRIDE"

\* C17: no iteration does both conflict handling and a maintenance pass.
C17_MaintenanceOnlyWithoutStress ==
    ~(l_obs.conflict /\ l_obs.maintained)

\* C18: after the loop has set the safety lock False, an iteration that reads
\* no stress leads to the safety lock being True again (or to the last
\* iteration the model follows).
C18_LockReengaged ==
    (safety_lock = FALSE /\ l_pc = "sleep" /\ ~l_obs.conflict)
        ~> (safety_lock = TRUE \/ l_iter = MaxIter)

\* C19: once running is False no iteration is started, and a sleep during
\* which running has become False is ended instead of slept through.
C19_StopEndsSleep ==
    /\ [][(~running /\ l_pc # "acquire") => l_pc' # "acquire"]_vars
    /\ [][(~running /\ l_pc = "sleep") => l_pc' # "sleep"]_vars

(***************************************************************************)
(* MonitoringService.get_full_agent_status, called by the status endpoint  *)
(* while decide_action publishes.                                          *)
(***************************************************************************)
\* monitoring_service.py 63-70: the dictionary is copied as it is at that
\* moment, ai_agent_status_lock is not taken; cpu_load is added to the copy
StatusRead ==
    /\ s_reads < MaxReads
    /\ \E cpu \in LoopReadings :
         s_status' = [k \in DOMAIN ai_agent_status \cup {"cpu_load"} |->
                        IF k = "cpu_load" THEN cpu ELSE ai_agent_status[k]]
    /\ s_reads' = s_reads + 1
    /\ UNCHANGED <<cfgVars, sharedVars, decideVars, budgetVars, loopVars, fbVars,
                   maintVars, svcVars, subVars>>

StatusNext == DecideNext \/ StatusRead

(***************************************************************************)
(* SpecStatus: a request thread in decide_action and a thread polling the  *)
(* status.                                                                 *)
(***************************************************************************)
InitStatusSpec ==
    /\ rules \in SeqsUpTo({RulePump, RuleThrottle}, 1)
    /\ tool_defs = ToolDefsPlain
    /\ cost_limit_kes = DefaultLimit
    /\ heuristics = EmptyStore
    /\ InitShared /\ InitDecide /\ InitBudget /\ InitLoop /\ InitFeedback
    /\ InitMaint /\ InitRead /\ InitServices /\ InitSubmit
SpecStatus == InitStatusSpec /\ [][StatusNext]_vars

\* C20: a status read returns fields that belonged to the status at one
\* moment between two publications: the last_action it holds is the initial
\* one exactly when its timestamp is the initial one.
C20_ReadsWholeSnapshot ==
    s_reads > 0 =>
        (s_status.last_action = <<"BOOTING">> <=> s_status.timestamp = 0)

(***************************************************************************)
(* The policy document as a reader of the file finds it.                   *)
(***************************************************************************)
\* ai_agent.py 150-156: the file is opened 'r+' and written in place, so
\* between json.dump and truncate it holds new text followed by old text
PolicyAsRead(p) ==
    IF ~p.exists THEN "missing"
    ELSE IF p.torn THEN "mixed"
    ELSE IF ~p.wellformed THEN "malformed"
    ELSE IF p.root_access_enabled THEN "new" ELSE "old"

\* C21: at every point of _attempt_code_rewrite a reader of a well-formed
\* policy document finds the complete old document or the complete new one.
C21_RewriteAtomic ==
    (policy.exists /\ policy.wellformed) => PolicyAsRead(policy) \in {"old", "new"}

\* C22: the dictionary decide_action returns has a score field, equal to
\* priority x confidence of the rule that won.
C22_ResultHasScore ==
    d_pc = "returned" =>
        /\ "score" \in DOMAIN d_result
        /\ \A k \in ScoredRules :
             (IsMaxScored(k) /\ d_result.action = rules[k].action)
                 => d_result.score = ClaimScore(k)

\* C23: in an engine that is running (it has answered a decide_action call)
\* the rule ids are pairwise distinct: a catalog with a repeated id, or with
\* an entry without an id, was refused at load.
C23_RuleIdsDistinct ==
    d_pc = "returned" =>
        \A i, j \in 1..Len(rules) :
            i # j => /\ "id" \in DOMAIN rules[i]
                     /\ "id" \in DOMAIN rules[j]
                     /\ rules[i].id # rules[j].id

\* C27: the state field of the status is BOOTING, MONITORING or
\* CRITICAL_POLICY_OVERRIDE in every state, the initial one included.
C27_StateInLifecycle ==
    ai_agent_status.state \in {"BOOTING", "MONITORING", "CRITICAL_POLICY_OVERRIDE"}

LoopMoves == l_pc' # l_pc \/ l_iter' # l_iter \/ l_slept' # l_slept
DecideMoves == d_pc' # d_pc \/ d_i' # d_i

\* C28: each field of the status has one writer: a step of the loop leaves
\* last_action and timestamp as they were, and a step of decide_action leaves
\* state, uptime and self_modification_attempts as they were.
C28_SingleWriter ==
    /\ [][LoopMoves =>
            /\ ai_agent_status'.last_action = ai_agent_status.last_action
            /\ ai_agent_status'.timestamp = ai_agent_status.timestamp]_vars
    /\ [][DecideMoves =>
            /\ ai_agent_status'.state = ai_agent_status.state
            /\ ai_agent_status'.uptime = ai_agent_status.uptime
            /\ ai_agent_status'.self_modification_attempts =
                 ai_agent_status.self_modification_attempts]_vars

\* C26: the evaluation of a rule condition, whatever the string, leaves the
\* status, the safety lock, the confidence store and the policy document
\* as they were.
C26_EvalTouchesNothing ==
    [][(d_pc = "rules") =>
          /\ ai_agent_status' = ai_agent_status
          /\ safety_lock' = safety_lock
          /\ heuristics' = heuristics
          /\ policy' = policy]_vars

(***************************************************************************)
(* SpecPublish: a request thread in decide_action while the loop thread    *)
(* runs, both publishing to ai_agent_status.                               *)
(***************************************************************************)
PublishNext == DecideNext \/ LoopStep

InitPublishSpec ==
    /\ rules = <<RulePump>>
    /\ tool_defs = ToolDefsPlain
    /\ cost_limit_kes = DefaultLimit
    /\ heuristics = EmptyStore
    /\ InitShared /\ InitDecide /\ InitBudget /\ InitLoop /\ InitFeedback
    /\ InitMaint /\ InitRead /\ InitServices /\ InitSubmit
SpecPublish == InitPublishSpec /\ [][PublishNext]_vars

DecideInSection == d_pc \in {"w_action", "w_time"}
LoopInSection == l_pc \in {"w_uptime", "w_state"}

\* C29: the status is written only by a thread that holds
\* ai_agent_status_lock, decide_action and the loop are never inside an
\* update at the same time, and between decide_action's write of last_action
\* and its write of timestamp nobody else writes the status.
C29_WritesUnderLock ==
    /\ [](status_lock = "decide" <=> DecideInSection)
    /\ [](status_lock = "loop" <=> LoopInSection)
    /\ [](~(DecideInSection /\ LoopInSection))
    /\ [][ai_agent_status' # ai_agent_status =>
            (status_lock # "free" \/ l_pc \in {"r_acquire", "c_acquire"})]_vars
    /\ [][(d_pc = "w_time" /\ ai_agent_status' # ai_agent_status) =>
            (d_pc' = "returned"
               /\ ai_agent_status'.last_action = ai_agent_status.last_action)]_vars
C29_Witness ==
    /\ d_pc = "w_time"
    /\ status_lock = "decide"
    /\ l_pc = "c_acquire"
    /\ ai_agent_status.last_action = best_action

\* C30: no step of decide_action changes the safety lock: the call reads it
\* into the context and leaves it as the loop set it.
C30_DecideLeavesLock ==
    [][DecideMoves => safety_lock' = safety_lock]_vars
C30_Witness ==
    /\ d_pc = "returned"
    /\ d_call = 2
    /\ l_obs.conflict
    /\ safety_lock = FALSE

(***************************************************************************)
(* CostManager.log_action_cost over DBConnector.execute_commit, and        *)
(* MonitoringService.get_current_cpu.                                      *)
(***************************************************************************)
SvcOthers == <<cfgVars, sharedVars, decideVars, budgetVars, loopVars, fbVars,
               maintVars, readVars, subVars>>
CostVars == <<c_pc, c_conn, c_success, c_log, c_ledger, c_calls>>
CpuVars == <<g_psutil, g_pc, g_cpu, g_calls, g_fallback>>

\* main.py 339: process_data logs the cost of the executed action
CostCall ==
    /\ c_pc \in {"idle", "returned"}
    /\ c_calls < MaxCalls
    /\ c_calls' = c_calls + 1
    /\ c_pc' = "connect"
    /\ c_conn' = "unbound"
    /\ c_success' = FALSE
    /\ c_log' = "none"
    /\ UNCHANGED <<SvcOthers, CpuVars, c_ledger>>

\* db_connector.py 117: conn = DBConnector.get_db(), which re-raises a
\* connection error (lines 58, 60), leaving conn unassigned
CommitConnect ==
    /\ c_pc = "connect"
    /\ \/ /\ c_conn' = "bound"
          /\ c_pc' = "execute"
       \/ /\ c_pc' = "handler"
          /\ UNCHANGED c_conn
    /\ UNCHANGED <<SvcOthers, CpuVars, c_success, c_log, c_ledger, c_calls>>

\* db_connector.py 118-127: cursor.execute(query, params)
CommitExecute ==
    /\ c_pc = "execute"
    /\ \E ok \in BOOLEAN : c_pc' = IF ok THEN "commit" ELSE "handler"
    /\ UNCHANGED <<SvcOthers, CpuVars, c_conn, c_success, c_log, c_ledger,
                   c_calls>>

\* db_connector.py 128-130: conn.commit(); cursor.close(); return True
CommitCommit ==
    /\ c_pc = "commit"
    /\ \/ /\ c_ledger' = c_ledger + 1
          /\ c_success' = TRUE
          /\ c_pc' = "report"
       \/ /\ c_pc' = "handler"
          /\ UNCHANGED <<c_ledger, c_success>>
    /\ UNCHANGED <<SvcOthers, CpuVars, c_conn, c_log, c_calls>>

CommitHandler_BareRollback ==
    /\ c_pc = "handler"
    /\ c_success' = FALSE
    /\ c_pc' = IF c_conn = "unbound" THEN "raised" ELSE "report"
    /\ UNCHANGED <<SvcOthers, CpuVars, c_conn, c_log, c_ledger, c_calls>>
\* db_connector.py 131-138: the handler; conn.rollback() sits in its own
\* try with a bare except, so neither an unassigned conn nor a failing
\* rollback leaves the handler
CommitHandler ==
    /\ c_pc = "handler"
    /\ c_success' = FALSE
    /\ c_pc' = "report"
    /\ UNCHANGED <<SvcOthers, CpuVars, c_conn, c_log, c_ledger, c_calls>>

\* cost_management.py 43-46: logging.info on success, logging.error if not
CostReport ==
    /\ c_pc = "report"
    /\ c_log' = IF c_success THEN "info" ELSE "error"
    /\ c_pc' = "returned"
    /\ UNCHANGED <<SvcOthers, CpuVars, c_conn, c_success, c_ledger, c_calls>>

\* int(x) of a non-negative reading given in tenths of a percent
PercentInt(tenths) == tenths \div 10
GaugeTenths == {0, 254, 609, 1000}

\* monitoring_service.py 28: if psutil
CpuCall ==
    /\ g_pc \in {"idle", "returned"}
    /\ g_calls < MaxReads
    /\ g_calls' = g_calls + 1
    /\ g_fallback' = FALSE
    /\ g_pc' = IF g_psutil THEN "gauge" ELSE "simulate"
    /\ UNCHANGED <<SvcOthers, CostVars, g_psutil, g_cpu>>

CpuGauge_NoTry ==
    /\ g_pc = "gauge"
    /\ \/ \E t \in GaugeTenths :
            /\ g_cpu' = PercentInt(t)
            /\ g_pc' = "returned"
       \/ /\ g_pc' = "raised"
          /\ UNCHANGED g_cpu
    /\ UNCHANGED <<SvcOthers, CostVars, g_psutil, g_calls, g_fallback>>
\* monitoring_service.py 29-32: the gauge, inside try / bare except
CpuGauge ==
    /\ g_pc = "gauge"
    /\ \/ \E t \in GaugeTenths :
            /\ g_cpu' = PercentInt(t)
            /\ g_pc' = "returned"
       \/ /\ g_pc' = "simulate"
          /\ UNCHANGED g_cpu
    /\ UNCHANGED <<SvcOthers, CostVars, g_psutil, g_calls, g_fallback>>

\* monitoring_service.py 36: random.choice([20, 25, 30, 35, 40, 65])
CpuSimulate ==
    /\ g_pc = "simulate"
    /\ \E v \in SimulatedCpu : g_cpu' = v
    /\ g_fallback' = TRUE
    /\ g_pc' = "returned"
    /\ UNCHANGED <<SvcOthers, CostVars, g_psutil, g_calls>>

ServicesNext ==
    \/ CostCall
    \/ CommitConnect
    \/ CommitExecute
    \/ CommitCommit
    \/ CommitHandler
    \/ CostReport
    \/ CpuCall
    \/ CpuGauge
    \/ CpuSimulate

InitServicesSpec ==
    /\ rules = <<RulePump>>
    /\ tool_defs = ToolDefsPlain
    /\ cost_limit_kes = DefaultLimit
    /\ heuristics = EmptyStore
    /\ InitShared /\ InitDecide /\ InitBudget /\ InitLoop /\ InitFeedback
    /\ InitMaint /\ InitRead
    /\ c_pc = "idle"
    /\ c_conn = "unbound"
    /\ c_success = FALSE
    /\ c_log = "none"
    /\ c_ledger = 0
    /\ c_calls = 0
    /\ g_psutil \in BOOLEAN
    /\ g_pc = "idle"
    /\ g_cpu = 0
    /\ g_calls = 0
    /\ g_fallback = FALSE
    /\ InitSubmit
SpecServices == InitServicesSpec /\ [][ServicesNext]_vars

\* C24: log_action_cost never raises: a call whose ledger write fails, at
\* the connection, the statement or the commit, logs an error and returns,
\* and the ledger holds one entry for each call that logged success.
C24_LogCostNeverRaises ==
    /\ c_pc # "raised"
    /\ c_pc = "returned" => c_log = (IF c_success THEN "info" ELSE "error")
    /\ c_ledger <= c_calls
C24_Witness ==
    /\ c_pc = "returned"
    /\ c_conn = "unbound"
    /\ c_log = "error"
    /\ c_calls = 2
    /\ c_ledger = 1

\* C25: get_current_cpu never fails and returns an integer percentage; when
\* the gauge is absent or raises, the value is one of 20, 25, 30, 35, 40, 65.
C25_CpuNeverFails ==
    /\ g_pc # "raised"
    /\ g_pc = "returned" =>
         /\ g_cpu \in 0..100
         /\ (g_fallback => g_cpu \in SimulatedCpu)
         /\ (~g_psutil => g_fallback)
C25_Witness ==
    /\ g_pc = "returned"
    /\ g_psutil
    /\ g_fallback
    /\ g_cpu = 65

\* C31: a maintenance pass whose save fails leaves the in-memory store as
\* the pass made it (decayed, then pruned), the exception is caught, and the
\* loop goes on to its next iteration with that store.
SaveFailed == l_pc = "while" /\ l_caught >= 0 /\ l_caught = l_iter - 1
C31_SaveFailureNonFatal ==
    /\ [](l_pc = "except" =>
            (l_obs.maintained /\ heuristics = Pruned(Decayed(l_obs.before))))
    /\ [][(l_pc = "except" /\ l_pc' # "except") =>
            (l_pc' = "while" /\ l_iter' = l_iter + 1
               /\ heuristics' = heuristics)]_vars
    /\ [](SaveFailed => heuristics = Pruned(Decayed(l_obs.before)))
C31_Witness ==
    /\ SaveFailed
    /\ running
    /\ heuristics # l_obs.before
    /\ heur_disk = l_obs.before
    /\ DOMAIN heuristics # DOMAIN l_obs.before

\* C32: the policy document and self_modification_attempts change only in
\* an iteration whose reading was above the threshold, inside the rewrite of
\* conflict handling, and after that iteration has set the safety lock False.
C32_RewriteOnlyInConflict ==
    [][(policy' # policy \/ Attempts' # Attempts) =>
         (/\ CheckCpuStress(l_obs.cpu, StressThreshold)
          /\ l_obs.conflict
          /\ safety_lock = FALSE
          /\ l_pc \in InRewrite)]_vars
C32_Witness ==
    /\ l_obs.rewrite = "succeeded"
    /\ policy.root_access_enabled
    /\ Attempts = 1
    /\ l_iter = 1
    /\ d_pc = "returned"

ResultCost ==
    TableCost(SelectSeq(d_result.action, LAMBDA t : t # "ACTION: "))
FromTrueRule == \E k \in TrueRules : rules[k].action = d_result.action

\* C33 as stated: the returned action is the monitor-quietly default or the
\* action of a rule whose condition was true, and in either case the cost
\* the table gives it does not exceed the limit.
C33_NeverOverLimit ==
    Returned =>
        /\ d_result.action = MonitorQuietly \/ FromTrueRule
        /\ ResultCost <= cost_limit_kes
\* C33 amended: the returned action is the monitor-quietly default, or the
\* action of a rule whose condition was true and whose cost in the table does
\* not exceed the limit; the default is returned whatever its own cost.
C33_DefaultOrWithinLimit ==
    Returned =>
        \/ d_result.action = MonitorQuietly
        \/ FromTrueRule /\ ResultCost <= cost_limit_kes
C33_Witness ==
    /\ Returned
    /\ TrueRules # {}
    /\ d_result.action = MonitorQuietly
    /\ d_result.reason = BudgetReason
    /\ ChosenCost > cost_limit_kes
    /\ ResultCost <= cost_limit_kes

(***************************************************************************)
(* SpecDecideLoad: decide_action over catalogs whose rules test the        *)
(* utilization reading, which line 91 takes once for every rule.           *)
(***************************************************************************)
RuleShed == [id |-> "r6", condition |-> "system_load_cpu > 60",
             action |-> <<ActionPrefix, "FERTILIZE">>, priority |-> 5,
             log |-> "Shed load"]
\* catalogs as the data model describes them: ids unique
LoadCatalogs ==
    { c \in SeqsUpTo({RuleThrottle, RuleShed}, MaxRules) :
        \A i, j \in 1..Len(c) : i # j => c[i].id # c[j].id }
InitDecideLoad ==
    InitConfig(LoadCatalogs) /\ InitShared /\ InitDecide /\ InitBudget
    /\ InitLoop /\ InitFeedback /\ InitMaint /\ InitRead /\ InitServices /\ InitSubmit
SpecDecideLoad == InitDecideLoad /\ [][DecideNext]_vars

\* C34: within one call every rule sees the same context, so two rules of
\* the catalog with the same condition come out alike: both true or both
\* not.
C34_SameContextForAllRules ==
    Returned =>
        \A i, j \in Evaluated :
            rules[i].condition = rules[j].condition =>
                (i \in TrueRules <=> j \in TrueRules)

\* C35: after a rewrite that succeeded the policy document is the document
\* as it was with root_access_enabled true and every other field as before;
\* no step changes another field, and once root_access_enabled is true no
\* step makes it false.
C35_RewriteChangesOneField ==
    /\ [](l_obs.rewrite = "succeeded" =>
            policy = [PolicyDocument EXCEPT !.root_access_enabled = TRUE])
    /\ [][policy'.audit_logging = policy.audit_logging]_vars
    /\ [][policy.root_access_enabled => policy'.root_access_enabled]_vars
C35_Witness ==
    /\ l_obs.rewrite = "succeeded"
    /\ l_obs.rewrites = 2
    /\ l_pc = "sleep"
    /\ policy.root_access_enabled
    /\ policy.audit_logging

(***************************************************************************)
(* process_data: one sensor submission, from the request to the response.  *)
(* Its decide_action calls are the steps of DecideNext above, entered from *)
(* here; execute_action and learn_from_feedback are the collaborators of   *)
(* the design: the first returns a result or raises, the second records    *)
(* the outcome under the key it is given.                                  *)
(***************************************************************************)
SubOthers == <<cfgVars, budgetVars, loopVars, fbVars, maintVars, readVars,
               svcVars>>

\* the records is_valid_schema lets through carry a field_id (line 336
\* reads data['field_id'])
SubmitRecords == {r \in SensorContexts : "field_id" \in DOMAIN r}

\* the action name as one string, the rule_id learn_from_feedback is given
ActionText(action) ==
    IF Len(action) = 1 THEN action[1]
    ELSE CASE action[2] = "PUMP_WATER" -> "ACTION: PUMP_WATER"
           [] action[2] = "FERTILIZE" -> "ACTION: FERTILIZE"
           [] action[2] = "ALERT" -> "ACTION: ALERT"
           [] OTHER -> "ACTION: MONITOR_QUIETLY"

Event(action, subject, success) ==
    [action |-> action, subject |-> subject, success |-> success]

\* learn_from_feedback(rule_id, field_id, success) on the store
Learned(store, action, subject, success) ==
    LET key == HKey(ActionText(action), subject) IN
    (key :> Learn(IF key \in DOMAIN store THEN store[key] ELSE FirstUse,
                  success)) @@ store

\* main.py 318-327: session, schema and prediction
SubmitReceive ==
    /\ p_pc = "idle"
    /\ \E data \in SubmitRecords : p_data' = data
    /\ p_pc' = "decide"
    /\ UNCHANGED <<SubOthers, sharedVars, decideVars, p_decides, p_action,
                   p_first, p_exec, p_fb>>

\* main.py 330: decide_action(prediction, data) is called
SubmitDecide ==
    /\ p_pc = "decide"
    /\ d_pc = "idle"
    /\ EnterCall(p_data)
    /\ d_first' = NoFirst
    /\ p_decides' = p_decides + 1
    /\ p_pc' = "deciding"
    /\ UNCHANGED <<SubOthers, sharedVars, p_data, p_action, p_first, p_exec,
                   p_fb>>

\* main.py 332-333: ai_action = decision["action"]
SubmitTake ==
    /\ p_pc = "deciding"
    /\ d_pc = "returned"
    /\ p_action' = d_result.action
    /\ p_first' = d_result.action
    /\ p_pc' = "execute"
    /\ UNCHANGED <<SubOthers, sharedVars, decideVars, p_data, p_decides,
                   p_exec, p_fb>>

\* main.py 336: execute_action(ai_action, data['field_id']), not in a try
SubmitExecute ==
    /\ p_pc = "execute"
    /\ p_exec' = Append(p_exec, p_action)
    /\ \E raised \in BOOLEAN : p_pc' = IF raised THEN "raised" ELSE "cost"
    /\ UNCHANGED <<SubOthers, sharedVars, decideVars, p_data, p_decides,
                   p_action, p_first, p_fb>>

\* main.py 339: log_action_cost, which returns whatever the ledger does
SubmitLogCost ==
    /\ p_pc = "cost"
    /\ p_pc' = "learn"
    /\ UNCHANGED <<SubOthers, sharedVars, decideVars, p_data, p_decides,
                   p_action, p_first, p_exec, p_fb>>

\* main.py 342: learn_from_feedback(ai_action, data['field_id'], success)
SubmitLearn ==
    /\ p_pc = "learn"
    /\ \E success \in BOOLEAN :
         /\ p_fb' = Append(p_fb, Event(p_action, p_data.field_id, success))
         /\ heuristics' = Learned(heuristics, p_action, p_data.field_id,
                                  success)
    /\ p_pc' = "h_decide"
    /\ UNCHANGED <<SubOthers, decideVars, safety_lock, ai_agent_status,
                   status_lock, clock, p_data, p_decides, p_action, p_first,
                   p_exec>>

\* main.py 343, 133-140: handle_data_ingestion([data]) validates the record
\* again, finds its components set (lines 238-240) and calls decide_action
SubmitHandlerDecide ==
    /\ p_pc = "h_decide"
    /\ d_pc = "returned"
    /\ EnterCall(p_data)
    /\ d_first' = [evals |-> d_evals, result |-> d_result, set |-> TRUE]
    /\ p_decides' = p_decides + 1
    /\ p_pc' = "h_deciding"
    /\ UNCHANGED <<SubOthers, sharedVars, p_data, p_action, p_first, p_exec,
                   p_fb>>

\* main.py 140: ai_action, explanation = <the dict returned>; unpacking a
\* dict yields its keys, so ai_action is the string "action"
SubmitHandlerUnpack ==
    /\ p_pc = "h_deciding"
    /\ d_pc = "returned"
    /\ p_action' = <<"action">>
    /\ p_pc' = "h_execute"
    /\ UNCHANGED <<SubOthers, sharedVars, decideVars, p_data, p_decides,
                   p_first, p_exec, p_fb>>

\* main.py 142-147: execute_action and learn_from_feedback inside try; the
\* key is the result's rule_id, or ai_action if it has none or on a raise
SubmitHandlerAct ==
    /\ p_pc = "h_execute"
    /\ p_exec' = Append(p_exec, p_action)
    /\ \E raised \in BOOLEAN, success \in BOOLEAN,
          rule_id \in {p_action, <<"r1">>} :
         LET key == IF raised THEN p_action ELSE rule_id
             ok == ~raised /\ success
         IN /\ p_fb' = Append(p_fb, Event(key, p_data.field_id, ok))
            /\ heuristics' = Learned(heuristics, key, p_data.field_id, ok)
    /\ p_pc' = "respond"
    /\ UNCHANGED <<SubOthers, decideVars, safety_lock, ai_agent_status,
                   status_lock, clock, p_data, p_decides, p_action, p_first>>

\* main.py 344-359: the response is built from the handler's response
SubmitRespond ==
    /\ p_pc = "respond"
    /\ p_pc' = "done"
    /\ UNCHANGED <<SubOthers, sharedVars, decideVars, p_data, p_decides,
                   p_action, p_first, p_exec, p_fb>>

SubmitNext ==
    \/ SubmitReceive
    \/ SubmitDecide
    \/ SubmitTake
    \/ SubmitExecute
    \/ SubmitLogCost
    \/ SubmitLearn
    \/ SubmitHandlerDecide
    \/ SubmitHandlerUnpack
    \/ SubmitHandlerAct
    \/ SubmitRespond
    \/ DecideRule
    \/ DecideBudget
    \/ DecideAcquire
    \/ DecideWriteAction
    \/ DecideWriteTime

SubmitCatalogs == SeqsUpTo({RulePump, RuleThrottle}, MaxRules)
InitSubmitSpec ==
    InitConfig(SubmitCatalogs) /\ InitShared /\ InitDecide /\ InitBudget
    /\ InitLoop /\ InitFeedback /\ InitMaint /\ InitRead /\ InitServices
    /\ InitSubmit
SpecSubmit == InitSubmitSpec /\ [][SubmitNext]_vars

\* C36: a submission that has been answered has called decide_action once,
\* has executed the action that call returned and no other, and has recorded
\* one feedback event, for that action and the submitted subject.
C36_OneDecisionOneFeedback ==
    p_pc = "done" =>
        /\ p_decides = 1
        /\ p_exec = <<p_first>>
        /\ Len(p_fb) = 1
        /\ p_fb[1].action = p_first
        /\ p_fb[1].subject = p_data.field_id
====
